---- MODULE Spec2Model ----
(***************************************************************************)
(* pftabled: a daemon that mirrors one pf(4) address table in memory and   *)
(* lets authenticated clients add, remove, list and clear its entries.     *)
(*                                                                         *)
(* Text is modelled as a sequence of tokens: the characters "+", "-", "?", *)
(* ".", "*", "!", " ", "/", "\n" and whole literals such as "192.0.2.1".   *)
(* Addresses are kept as packed bytes, as ipaddress and the pfr_addr union *)
(* keep them.  The platform modelled is OpenBSD (pf and pledge present).   *)
(***************************************************************************)
EXTENDS Integers, Sequences, FiniteSets, TLC

\* ------------------------------------------------------------------ bounds
\* connection worker threads (one per accepted connection)
NumWorkers == 2
\* command lines the server reads in one run, over all connections
MaxCmds == 3
\* largest initial buffer capacity tried for _get_addresses
MaxBuf == 2
\* changes other processes make to the kernel table during one fetch
MaxChanges == 1
\* commands the client reads from standard input in one run
MaxSends == 3

\* --------------------------------------------------------------- constants
AF_INET == 2
AF_INET6 == 24
PFRKE_PLAIN == 0

Workers == 1 .. NumWorkers
NoWorker == 0

\* ------------------------------------------------------------- ipaddress
Zero12 == <<0, 0, 0, 0, 0, 0, 0, 0, 0, 0, 0, 0>>

\* ipaddress.ip_address on the address literals of the model
IPLiterals ==
    ("192.0.2.1" :> [version |-> 4, packed |-> <<192, 0, 2, 1>>]) @@
    ("10.1.2.3" :> [version |-> 4, packed |-> <<10, 1, 2, 3>>]) @@
    ("10.0.0.0" :> [version |-> 4, packed |-> <<10, 0, 0, 0>>]) @@
    ("198.51.100.7" :> [version |-> 4, packed |-> <<198, 51, 100, 7>>]) @@
    ("198.51.100.0" :> [version |-> 4, packed |-> <<198, 51, 100, 0>>]) @@
    ("2001:db8::" :> [version |-> 6, packed |-> <<32, 1, 13, 184>> \o Zero12])

\* int() on the prefix literals of the model
PrefixLiterals == ("8" :> 8) @@ ("24" :> 24) @@ ("32" :> 32) @@ ("33" :> 33) @@ ("128" :> 128)

max_prefixlen(version) == IF version = 4 THEN 32 ELSE 128

RECURSIVE Pow2(_)
Pow2(n) == IF n = 0 THEN 1 ELSE 2 * Pow2(n - 1)

\* byte i (1-based) of a packed address with the bits past prefixlen cleared
MaskByte(b, i, prefixlen) ==
    LET kept == IF prefixlen >= 8 * i THEN 8
                ELSE IF prefixlen <= 8 * (i - 1) THEN 0
                ELSE prefixlen - 8 * (i - 1)
    IN  b - (b % Pow2(8 - kept))

MaskPacked(packed, prefixlen) ==
    [i \in 1 .. Len(packed) |-> MaskByte(packed[i], i, prefixlen)]

\* ipaddress.ip_network(text, strict=False): does it raise ValueError?
ip_network_valid(text) ==
    /\ Len(text) \in {1, 3}
    /\ text[1] \in DOMAIN IPLiterals
    /\ Len(text) = 3 =>
          /\ text[2] = "/"
          /\ text[3] \in DOMAIN PrefixLiterals
          /\ PrefixLiterals[text[3]] <= max_prefixlen(IPLiterals[text[1]].version)

\* ipaddress.ip_network(text, strict=False): host bits are masked away
ip_network(text) ==
    LET ip == IPLiterals[text[1]]
        plen == IF Len(text) = 3 THEN PrefixLiterals[text[3]]
                ELSE max_prefixlen(ip.version)
    IN  [version |-> ip.version,
         network_address |-> MaskPacked(ip.packed, plen),
         prefixlen |-> plen]

\* str(ip_address): the literal of a packed address
ip_str(version, packed) ==
    CHOOSE s \in DOMAIN IPLiterals :
        IPLiterals[s] = [version |-> version, packed |-> packed]

\* str(int): the literal of a prefix length
int_str(n) == CHOOSE s \in DOMAIN PrefixLiterals : PrefixLiterals[s] = n

\* ------------------------------------------------------------------- str
IsSpace(c) == c \in {" ", "\n"}

RECURSIVE lstrip(_)
lstrip(s) == IF s # <<>> /\ IsSpace(Head(s)) THEN lstrip(Tail(s)) ELSE s

RECURSIVE rstrip(_)
rstrip(s) ==
    IF s # <<>> /\ IsSpace(s[Len(s)]) THEN rstrip(SubSeq(s, 1, Len(s) - 1)) ELSE s

strip(s) == rstrip(lstrip(s))

RECURSIVE lstrip_bang(_)
lstrip_bang(s) == IF s # <<>> /\ Head(s) = "!" THEN lstrip_bang(Tail(s)) ELSE s

startswith_bang(s) == s # <<>> /\ Head(s) = "!"

\* ------------------------------------------------------------ PFTableAddr
\* PFTableAddr(str) raises ValueError
from_string_valid(a) == ip_network_valid(lstrip(lstrip_bang(strip(a))))

from_string(a) ==
    [address |-> ip_network(lstrip(lstrip_bang(strip(a)))),
     negate |-> startswith_bang(strip(a))]

to_string(x) ==
    LET s1 == <<ip_str(x.address.version, x.address.network_address)>>
        s2 == IF x.address.prefixlen # max_prefixlen(x.address.version)
              THEN s1 \o <<"/", int_str(x.address.prefixlen)>>
              ELSE s1
    IN  IF x.negate THEN <<"!", " ">> \o s2 ELSE s2

\* the 16 bytes of the pfra_u union after memmove into a zeroed pfr_addr
PadTo16(packed) == [i \in 1 .. 16 |-> IF i <= Len(packed) THEN packed[i] ELSE 0]

\* variant: the negate flag is not written to the record
to_struct_plain(x) ==
    [pfra_u |-> PadTo16(x.address.network_address),
     pfra_af |-> IF x.address.version = 4 THEN AF_INET ELSE AF_INET6,
     pfra_net |-> x.address.prefixlen,
     pfra_not |-> 0,
     pfra_fback |-> 0,
     pfra_type |-> PFRKE_PLAIN]
to_struct(x) ==
    [pfra_u |-> PadTo16(x.address.network_address),
     pfra_af |-> IF x.address.version = 4 THEN AF_INET ELSE AF_INET6,
     pfra_net |-> x.address.prefixlen,
     pfra_not |-> IF x.negate THEN 1 ELSE 0,
     pfra_fback |-> 0,
     pfra_type |-> PFRKE_PLAIN]

\* PFTableAddr(pfr_addr) raises neither KeyError (address family) nor
\* ValueError (prefix too long, host bits set: ip_network is strict here)
from_struct_valid(a) ==
    /\ a.pfra_af \in {AF_INET, AF_INET6}
    /\ LET address_length == IF a.pfra_af = AF_INET6 THEN 16 ELSE 4
           packed == SubSeq(a.pfra_u, 1, address_length)
       IN  /\ a.pfra_net <= 8 * address_length
           /\ MaskPacked(packed, a.pfra_net) = packed

from_struct(a) ==
    LET address_length == IF a.pfra_af = AF_INET6 THEN 16 ELSE 4
    IN  [address |-> [version |-> IF a.pfra_af = AF_INET6 THEN 6 ELSE 4,
                      network_address |-> SubSeq(a.pfra_u, 1, address_length),
                      prefixlen |-> a.pfra_net],
         negate |-> a.pfra_not # 0]

\* ------------------------------------------------------------------ state
VARIABLES
    main_pc,      \* position of main() in the daemon
    pf_dev,       \* PfTable._pf_dev: is /dev/pf open
    loaded,       \* PfTable.__init__ has fetched the table membership
    promises,     \* the pledge promises in force ({} before the first pledge)
    unveiled,     \* paths passed to unveil so far
    unveil_locked,\* unveil(None, None) was called
    socket_file,  \* does the rendezvous path exist in the filesystem
    kernel,       \* the kernel table: a set of pfr_addr records
    addresses,    \* PfTable._addresses
    lock,         \* PfTable._lock: the worker holding it, or NoWorker
    conn,         \* per worker: state of its connection
    pc,           \* per worker: position in handle / process_command / PfTable
    command,      \* per worker: the stripped command being processed
    address,      \* per worker: _address, the parsed operand
    result,       \* per worker: added / deleted, the count add or remove returns
    listed,       \* per worker: the list that list() returns
    wfile,        \* per worker: reply written for the current command
    io,           \* per worker: the pfioc_table of its replace call
    nread,        \* lines read by the server so far
    nset,         \* DIOCRSETADDRS calls issued so far
    shadow,       \* history: the set the calls so far describe
    committed,    \* history: _addresses when the lock was last free
    kcommitted,   \* history: kernel table when the lock was last free
    fetch,        \* one run of PfTable._get_addresses, call by call
    codec,        \* one PFTableAddr taken through to_struct and _from_struct
    client        \* one PFTableClient and the stream of its connection

vars == <<main_pc, pf_dev, loaded, promises, unveiled, unveil_locked, socket_file,
          kernel, addresses, lock, conn, pc, command, address, result, listed,
          wfile,
          io, nread, nset, shadow, committed, kcommitted, fetch, codec, client>>

startup_vars == <<pf_dev, loaded, promises, unveiled, unveil_locked, socket_file>>
table_vars == <<kernel, addresses, lock, io, nset, shadow, committed, kcommitted>>
worker_vars == <<conn, pc, command, address, result, listed, wfile, nread>>
unit_vars == <<fetch, codec, client>>

NoFetch == [pc |-> "off"]
NoCodec == [pc |-> "off"]
NoClient == [pc |-> "off"]

NoAddress == [address |-> [version |-> 0, network_address |-> <<>>, prefixlen |-> 0],
              negate |-> FALSE]
NoIo == [pfrio_size |-> 0, pfrio_buffer |-> {}]

\* command lines as the clients of the model send them
RawLines ==
    { <<"+", "192.0.2.1", "\n">>,
      <<"-", "192.0.2.1", "\n">>,
      <<"+", "10.1.2.3", "/", "8", "\n">>,
      <<" ", "?", " ", "\n">>,
      <<".", "\n">>,
      <<"+", "\n">>,
      <<"-", " ", "\n">>,
      <<"*", "\n">>,
      <<"+", "foo", "\n">>,
      <<"-", "!", "\n">>,
      <<"\n">> }

\* entries the kernel table may hold when the daemon starts
InitialEntries ==
    { to_struct(from_string(<<"192.0.2.1">>)),
      to_struct(from_string(<<"10.0.0.0", "/", "8">>)) }

InitMain(entries) ==
    /\ main_pc = "start"
    /\ pf_dev = FALSE
    /\ loaded = FALSE
    /\ promises = {}
    /\ unveiled = {}
    /\ unveil_locked = FALSE
    /\ socket_file \in BOOLEAN
    /\ kernel \in SUBSET entries
    /\ addresses = {}
    /\ lock = NoWorker
    /\ conn = [w \in Workers |-> "none"]
    /\ pc = [w \in Workers |-> "none"]
    /\ command = [w \in Workers |-> <<>>]
    /\ address = [w \in Workers |-> NoAddress]
    /\ result = [w \in Workers |-> 0]
    /\ listed = [w \in Workers |-> <<>>]
    /\ wfile = [w \in Workers |-> <<>>]
    /\ io = [w \in Workers |-> NoIo]
    /\ nread = 0
    /\ nset = 0
    /\ shadow = {}
    /\ committed = {}
    /\ kcommitted = kernel

InitWith(entries) ==
    /\ InitMain(entries)
    /\ fetch = NoFetch
    /\ codec = NoCodec
    /\ client = NoClient

Init == InitWith(InitialEntries)

\* --------------------------------------------------------- kernel: pf(4)
\* DIOCRGETADDRS: the kernel reports its entry count and fills the buffer
RECURSIVE get_addresses(_, _)
get_addresses(table, buf_size) ==
    IF Cardinality(table) <= buf_size
    THEN {from_struct(a) : a \in table}
    ELSE get_addresses(table, Cardinality(table))

DefaultBufSize == 20

\* DIOCRSETADDRS: the table becomes the buffer; the kernel reports the delta
set_addresses_ndel(old, buffer) == Cardinality(old \ buffer)
\* variant: add returns the deleted count instead of the added count
set_addresses_nadd_swapped(old, buffer) == Cardinality(old \ buffer)
set_addresses_nadd(old, buffer) == Cardinality(buffer \ old)

\* ------------------------------------------------------------------ main
\* PfTable.__init__: open('/dev/pf', 'w')
OpenDevice ==
    /\ main_pc = "start"
    /\ \/ /\ pf_dev' = TRUE
          /\ main_pc' = "opened"
       \/ /\ pf_dev' = FALSE
          /\ main_pc' = "aborted"
    /\ UNCHANGED <<loaded, promises, unveiled, unveil_locked, socket_file>>
    /\ UNCHANGED <<table_vars, worker_vars>>
    /\ UNCHANGED unit_vars

\* PfTable.__init__: self._addresses = set(self._get_addresses()); Lock()
LoadTable ==
    /\ main_pc = "opened"
    /\ \/ /\ addresses' = get_addresses(kernel, DefaultBufSize)
          /\ shadow' = addresses'
          /\ committed' = addresses'
          /\ loaded' = TRUE
          /\ main_pc' = "loaded"
       \/ /\ main_pc' = "aborted"
          /\ UNCHANGED <<addresses, shadow, committed, loaded>>
    /\ UNCHANGED <<kernel, lock, io, nset, kcommitted>>
    /\ UNCHANGED <<pf_dev, promises, unveiled, unveil_locked, socket_file>>
    /\ UNCHANGED worker_vars
    /\ UNCHANGED unit_vars

Pledges == {"unveil", "stdio", "rpath", "cpath", "unix", "pf", "error"}

\* pledge(pledges): the first, full promise set
PledgeFirst ==
    /\ main_pc = "loaded"
    /\ \/ /\ promises' = Pledges
          /\ main_pc' = "pledged"
       \/ /\ main_pc' = "aborted"
          /\ UNCHANGED promises
    /\ UNCHANGED <<pf_dev, loaded, unveiled, unveil_locked, socket_file>>
    /\ UNCHANGED <<table_vars, worker_vars>>
    /\ UNCHANGED unit_vars

\* unveil(path, 'r') for sys.path and the TLS files, unveil(socket_file, 'rc')
UnveilPaths ==
    /\ main_pc = "pledged"
    /\ unveiled' = {<<"sys.path", "r">>, <<"ssl_ca", "r">>, <<"ssl_cert", "r">>,
                    <<"ssl_key", "r">>, <<"socket_file", "rc">>}
    /\ main_pc' = "unveiled"
    /\ UNCHANGED <<pf_dev, loaded, promises, unveil_locked, socket_file>>
    /\ UNCHANGED <<table_vars, worker_vars>>
    /\ UNCHANGED unit_vars

\* unveil(None, None)
UnveilLock ==
    /\ main_pc = "unveiled"
    /\ unveil_locked' = TRUE
    /\ main_pc' = "unveil_locked"
    /\ UNCHANGED <<pf_dev, loaded, promises, unveiled, socket_file>>
    /\ UNCHANGED <<table_vars, worker_vars>>
    /\ UNCHANGED unit_vars

\* pledges -= {'unveil'}; pledge(pledges)
PledgeSecond ==
    /\ main_pc = "unveil_locked"
    /\ \/ /\ promises' = promises \ {"unveil"}
          /\ main_pc' = "restricted"
       \/ /\ main_pc' = "aborted"
          /\ UNCHANGED promises
    /\ UNCHANGED <<pf_dev, loaded, unveiled, unveil_locked, socket_file>>
    /\ UNCHANGED <<table_vars, worker_vars>>
    /\ UNCHANGED unit_vars

\* variant: the stale socket is removed before unveil is locked
CleanupSocketEarly ==
    /\ main_pc = "unveiled"
    /\ socket_file' = FALSE
    /\ main_pc' = "cleaned"
    /\ UNCHANGED <<pf_dev, loaded, promises, unveiled, unveil_locked>>
    /\ UNCHANGED <<table_vars, worker_vars>>
    /\ UNCHANGED unit_vars

\* if os.path.exists(socket_file): os.unlink(socket_file)
CleanupSocket ==
    /\ main_pc = "restricted"
    /\ socket_file' = FALSE
    /\ main_pc' = "cleaned"
    /\ UNCHANGED <<pf_dev, loaded, promises, unveiled, unveil_locked>>
    /\ UNCHANGED <<table_vars, worker_vars>>
    /\ UNCHANGED unit_vars

\* variant: the server is started right after the table is constructed
ServeEarly ==
    /\ main_pc = "loaded"
    /\ socket_file' = TRUE
    /\ main_pc' = "serving"
    /\ UNCHANGED <<pf_dev, loaded, promises, unveiled, unveil_locked>>
    /\ UNCHANGED <<table_vars, worker_vars>>
    /\ UNCHANGED unit_vars

\* the TLS context is loaded, ThreadingUnixStreamServer binds socket_file and
\* serve_forever starts; a failure of either ends main
Serve ==
    /\ main_pc = "cleaned"
    /\ \/ /\ socket_file' = TRUE
          /\ main_pc' = "serving"
       \/ /\ main_pc' = "aborted"
          /\ UNCHANGED socket_file
    /\ UNCHANGED <<pf_dev, loaded, promises, unveiled, unveil_locked>>
    /\ UNCHANGED <<table_vars, worker_vars>>
    /\ UNCHANGED unit_vars

\* ---------------------------------------------------------------- replies
\* variant: the success reply reads as an error reply
OK_as_error == <<"ERROR: UNKNOWN COMMAND", "\n">>
OK == <<"OK", "\n">>
MISSING_ADDRESS == <<"ERROR: MISSING ADDRESS", "\n">>
INVALID_ADDRESS == <<"ERROR: INVALID ADDRESS", "\n">>
UNKNOWN_COMMAND == <<"ERROR: UNKNOWN COMMAND", "\n">>

\* "\n".join(texts)
RECURSIVE join(_)
join(texts) ==
    IF texts = <<>> THEN <<>>
    ELSE IF Len(texts) = 1 THEN texts[1]
    ELSE texts[1] \o <<"\n">> \o join(Tail(texts))

\* the orders in which iterating a set can yield its members
Orders(S) ==
    {f \in [1 .. Cardinality(S) -> S] : \A i, j \in DOMAIN f : f[i] = f[j] => i = j}

\* -------------------------------------------------------- process_command
\* variant: the operand test is len(command) >= 1
BranchOffByOne(cmd) ==
    IF cmd[1] = "+" THEN (IF Len(cmd) >= 1 THEN "add" ELSE "missing")
    ELSE IF cmd[1] = "-" THEN (IF Len(cmd) >= 1 THEN "remove" ELSE "missing")
    ELSE IF cmd = <<"?">> THEN "list"
    ELSE IF cmd = <<".">> THEN "clear"
    ELSE "unknown"

\* which branch of process_command a stripped, non-empty command takes
Branch(cmd) ==
    IF cmd[1] = "+" THEN (IF Len(cmd) >= 2 THEN "add" ELSE "missing")
    ELSE IF cmd[1] = "-" THEN (IF Len(cmd) >= 2 THEN "remove" ELSE "missing")
    ELSE IF cmd = <<"?">> THEN "list"
    ELSE IF cmd = <<".">> THEN "clear"
    ELSE "unknown"

\* the server accepts a connection and starts its worker thread
Accept(w) ==
    /\ main_pc = "serving"
    /\ conn[w] = "none"
    /\ conn' = [conn EXCEPT ![w] = "open"]
    /\ pc' = [pc EXCEPT ![w] = "idle"]
    /\ UNCHANGED <<command, address, result, listed, wfile, nread>>
    /\ UNCHANGED <<main_pc, startup_vars, table_vars>>
    /\ UNCHANGED unit_vars

\* CommandHandler.handle reads a line; process_command up to the table call
ReadCommand(w, line) ==
    /\ pc[w] = "idle"
    /\ nread < MaxCmds
    /\ nread' = nread + 1
    /\ LET cmd == strip(line)
           br == IF cmd = <<>> THEN "skip" ELSE Branch(cmd)
       IN  /\ command' = [command EXCEPT ![w] = IF br = "skip" THEN <<>> ELSE cmd]
           /\ CASE br = "skip" ->
                     UNCHANGED <<pc, address, wfile>>
                [] br = "missing" ->
                     /\ wfile' = [wfile EXCEPT ![w] = MISSING_ADDRESS]
                     /\ pc' = [pc EXCEPT ![w] = "replied"]
                     /\ UNCHANGED address
                [] br = "unknown" ->
                     /\ wfile' = [wfile EXCEPT ![w] = UNKNOWN_COMMAND]
                     /\ pc' = [pc EXCEPT ![w] = "replied"]
                     /\ UNCHANGED address
                [] br \in {"add", "remove"} ->
                     IF from_string_valid(Tail(cmd))
                     THEN /\ address' = [address EXCEPT ![w] = from_string(Tail(cmd))]
                          /\ pc' = [pc EXCEPT ![w] = "lock"]
                          /\ UNCHANGED wfile
                     ELSE /\ wfile' = [wfile EXCEPT ![w] = INVALID_ADDRESS]
                          /\ pc' = [pc EXCEPT ![w] = "replied"]
                          /\ UNCHANGED address
                [] br \in {"list", "clear"} ->
                     /\ pc' = [pc EXCEPT ![w] = "lock"]
                     /\ UNCHANGED <<address, wfile>>
    /\ UNCHANGED <<conn, result, listed>>
    /\ UNCHANGED <<main_pc, startup_vars, table_vars>>
    /\ UNCHANGED unit_vars

\* the peer closes: the loop over rfile ends and the worker finishes
PeerClose(w) ==
    /\ pc[w] = "idle"
    /\ conn' = [conn EXCEPT ![w] = "closed"]
    /\ pc' = [pc EXCEPT ![w] = "done"]
    /\ UNCHANGED <<command, address, result, listed, wfile, nread>>
    /\ UNCHANGED <<main_pc, startup_vars, table_vars>>
    /\ UNCHANGED unit_vars

\* ---------------------------------------------------------------- PfTable
\* variant: the with statement does not wait for the lock
LockAlwaysFree == TRUE

\* may a worker enter `with self._lock`
LockFree == lock = NoWorker

\* with self._lock: (blocks until the lock is free)
Acquire(w) ==
    /\ pc[w] = "lock"
    /\ LockFree
    /\ lock' = w
    /\ pc' = [pc EXCEPT ![w] = "locked"]
    /\ UNCHANGED <<kernel, addresses, io, nset, shadow, committed, kcommitted>>
    /\ UNCHANGED <<conn, command, address, result, listed, wfile, nread>>
    /\ UNCHANGED <<main_pc, startup_vars>>
    /\ UNCHANGED unit_vars

\* variant: the buffer is built empty
set_addresses_io_empty(addrs) == [pfrio_size |-> 0, pfrio_buffer |-> {}]

\* _set_addresses up to the ioctl: the pfioc_table built from _addresses
set_addresses_io(addrs) ==
    [pfrio_size |-> Cardinality(addrs),
     pfrio_buffer |-> {to_struct(a) : a \in addrs}]

\* variant: equality over the network alone, as __hash__ is
addr_eq_network(a, b) == a.address = b.address
\* PFTableAddr.__eq__
addr_eq(a, b) == a.address = b.address /\ a.negate = b.negate

\* a in self._addresses
contains(addrs, a) == \E b \in addrs : addr_eq(a, b)

\* the in-memory set after add / remove / clear has changed it
add_addresses(addrs, a) == addrs \cup {a}
\* variant: remove leaves the member in the set
remove_addresses_kept(addrs, a) == addrs
remove_addresses(addrs, a) == {b \in addrs : ~addr_eq(a, b)}
clear_addresses(addrs) == {}

\* the body of add / remove / clear under the lock, up to the ioctl
Mutate(w) ==
    /\ pc[w] = "locked"
    /\ Branch(command[w]) \in {"add", "remove", "clear"}
    /\ LET br == Branch(command[w])
           changes == \/ br = "add" /\ ~contains(addresses, address[w])
                      \/ br = "remove" /\ contains(addresses, address[w])
                      \/ br = "clear"
           after == CASE br = "add" -> add_addresses(addresses, address[w])
                      [] br = "remove" -> remove_addresses(addresses, address[w])
                      [] br = "clear" -> clear_addresses(addresses)
       IN  IF changes
           THEN /\ addresses' = after
                /\ io' = [io EXCEPT ![w] = set_addresses_io(after)]
                /\ nset' = nset + 1
                /\ pc' = [pc EXCEPT ![w] = "ioctl"]
                /\ UNCHANGED <<result, listed>>
           ELSE /\ result' = [result EXCEPT ![w] = 0]
                /\ UNCHANGED listed
                /\ pc' = [pc EXCEPT ![w] = "leave"]
                /\ UNCHANGED <<addresses, io, nset>>
    /\ shadow' = CASE Branch(command[w]) = "add" -> shadow \cup {address[w]}
                   [] Branch(command[w]) = "remove" -> shadow \ {address[w]}
                   [] Branch(command[w]) = "clear" -> {}
    /\ UNCHANGED <<kernel, lock, committed, kcommitted>>
    /\ UNCHANGED <<conn, command, address, wfile, nread>>
    /\ UNCHANGED <<main_pc, startup_vars>>
    /\ UNCHANGED unit_vars

\* ioctl(DIOCRSETADDRS) returns 0: the kernel table is the buffer
IoctlDone(w) ==
    /\ pc[w] = "ioctl"
    /\ kernel' = io[w].pfrio_buffer
    /\ result' = [result EXCEPT ![w] =
                     IF Branch(command[w]) = "add"
                     THEN set_addresses_nadd(kernel, io[w].pfrio_buffer)
                     ELSE set_addresses_ndel(kernel, io[w].pfrio_buffer)]
    /\ io' = [io EXCEPT ![w] = NoIo]
    /\ pc' = [pc EXCEPT ![w] = "leave"]
    /\ UNCHANGED <<addresses, lock, nset, shadow, committed, kcommitted>>
    /\ UNCHANGED <<conn, command, address, listed, wfile, nread>>
    /\ UNCHANGED <<main_pc, startup_vars>>
    /\ UNCHANGED unit_vars

\* ioctl(DIOCRSETADDRS) fails: OSError is raised inside the with block
IoctlError(w) ==
    /\ pc[w] = "ioctl"
    /\ io' = [io EXCEPT ![w] = NoIo]
    /\ pc' = [pc EXCEPT ![w] = "raise"]
    /\ UNCHANGED <<kernel, addresses, lock, nset, shadow, committed, kcommitted>>
    /\ UNCHANGED <<conn, command, address, result, listed, wfile, nread>>
    /\ UNCHANGED <<main_pc, startup_vars>>
    /\ UNCHANGED unit_vars

\* list under the lock: [a.to_string() for a in self._addresses]
List(w) ==
    /\ pc[w] = "locked"
    /\ Branch(command[w]) = "list"
    /\ \E order \in Orders(addresses) :
          listed' = [listed EXCEPT ![w] =
                        [i \in DOMAIN order |-> to_string(order[i])]]
    /\ pc' = [pc EXCEPT ![w] = "leave"]
    /\ UNCHANGED table_vars
    /\ UNCHANGED <<conn, command, address, result, wfile, nread>>
    /\ UNCHANGED <<main_pc, startup_vars>>
    /\ UNCHANGED unit_vars

\* the with block ends normally, the operation returns, process_command replies
Return(w) ==
    /\ pc[w] = "leave"
    /\ lock' = NoWorker
    /\ committed' = addresses
    /\ kcommitted' = kernel
    /\ wfile' = [wfile EXCEPT ![w] =
                    IF Branch(command[w]) = "list"
                    THEN join(listed[w]) \o <<"\n">>
                    ELSE OK]
    /\ pc' = [pc EXCEPT ![w] = "replied"]
    /\ UNCHANGED <<kernel, addresses, io, nset, shadow>>
    /\ UNCHANGED <<conn, command, address, result, listed, nread>>
    /\ UNCHANGED <<main_pc, startup_vars>>
    /\ UNCHANGED unit_vars

\* variant: the lock stays held when OSError leaves the with block
RaiseKeepLock(w) ==
    /\ pc[w] = "raise"
    /\ lock' = lock
    /\ committed' = addresses
    /\ kcommitted' = kernel
    /\ conn' = [conn EXCEPT ![w] = "aborted"]
    /\ pc' = [pc EXCEPT ![w] = "done"]
    /\ UNCHANGED <<kernel, addresses, io, nset, shadow>>
    /\ UNCHANGED <<command, address, result, listed, wfile, nread>>
    /\ UNCHANGED <<main_pc, startup_vars>>
    /\ UNCHANGED unit_vars

\* the with block is left by OSError: the lock is released, no except clause of
\* process_command or handle matches, and socketserver closes the connection
Raise(w) ==
    /\ pc[w] = "raise"
    /\ lock' = NoWorker
    /\ committed' = addresses
    /\ kcommitted' = kernel
    /\ conn' = [conn EXCEPT ![w] = "aborted"]
    /\ pc' = [pc EXCEPT ![w] = "done"]
    /\ UNCHANGED <<kernel, addresses, io, nset, shadow>>
    /\ UNCHANGED <<command, address, result, listed, wfile, nread>>
    /\ UNCHANGED <<main_pc, startup_vars>>
    /\ UNCHANGED unit_vars

\* handle goes on to the next line of rfile
NextLine(w) ==
    /\ pc[w] = "replied"
    /\ pc' = [pc EXCEPT ![w] = "idle"]
    /\ command' = [command EXCEPT ![w] = <<>>]
    /\ address' = [address EXCEPT ![w] = NoAddress]
    /\ result' = [result EXCEPT ![w] = 0]
    /\ listed' = [listed EXCEPT ![w] = <<>>]
    /\ wfile' = [wfile EXCEPT ![w] = <<>>]
    /\ UNCHANGED <<conn, nread>>
    /\ UNCHANGED <<main_pc, startup_vars, table_vars>>
    /\ UNCHANGED unit_vars

Next ==
    \/ OpenDevice
    \/ LoadTable
    \/ PledgeFirst
    \/ UnveilPaths
    \/ UnveilLock
    \/ PledgeSecond
    \/ CleanupSocket
    \/ Serve
    \/ \E w \in Workers : Accept(w)
    \/ \E w \in Workers : \E line \in RawLines : ReadCommand(w, line)
    \/ \E w \in Workers : PeerClose(w)
    \/ \E w \in Workers : Acquire(w)
    \/ \E w \in Workers : Mutate(w)
    \/ \E w \in Workers : IoctlDone(w)
    \/ \E w \in Workers : IoctlError(w)
    \/ \E w \in Workers : List(w)
    \/ \E w \in Workers : Return(w)
    \/ \E w \in Workers : Raise(w)
    \/ \E w \in Workers : NextLine(w)

Spec == Init /\ [][Next]_vars

\* fair scheduling: a worker thread inside a table operation keeps running,
\* the kernel call returns, and a worker waiting for the lock gets it if it is
\* free again and again
FairSpec ==
    /\ Spec
    /\ \A w \in Workers :
          /\ SF_vars(Acquire(w))
          /\ WF_vars(Mutate(w))
          /\ WF_vars(List(w))
          /\ WF_vars(IoctlDone(w) \/ IoctlError(w))
          /\ WF_vars(Return(w))
          /\ WF_vars(Raise(w))

\* ------------------------------------------- N concurrent adds (scenario)
\* one add per worker, of pairwise distinct addresses
AddLines ==
    << <<"+", "192.0.2.1", "\n">>,
       <<"+", "10.1.2.3", "/", "8", "\n">>,
       <<"+", "2001:db8::", "/", "32", "\n">>,
       <<"+", "198.51.100.7", "/", "24", "\n">> >>

\* entries of the initial table that none of the workers adds
OtherEntries == { to_struct(from_string(<<"198.51.100.7">>)) }

InitAdd == InitWith(OtherEntries)

NextAdd ==
    \/ OpenDevice
    \/ LoadTable
    \/ PledgeFirst
    \/ UnveilPaths
    \/ UnveilLock
    \/ PledgeSecond
    \/ CleanupSocket
    \/ Serve
    \/ \E w \in Workers : Accept(w)
    \/ \E w \in Workers : ReadCommand(w, AddLines[w])
    \/ \E w \in Workers : PeerClose(w)
    \/ \E w \in Workers : Acquire(w)
    \/ \E w \in Workers : Mutate(w)
    \/ \E w \in Workers : IoctlDone(w)
    \/ \E w \in Workers : IoctlError(w)
    \/ \E w \in Workers : Return(w)
    \/ \E w \in Workers : Raise(w)
    \/ \E w \in Workers : NextLine(w)

SpecAdd == InitAdd /\ [][NextAdd]_vars

\* ------------------------------------ an address and its negation (scenario)
NegLines ==
    { <<"+", "192.0.2.1", "\n">>,
      <<"+", "!", " ", "192.0.2.1", "\n">>,
      <<"-", "192.0.2.1", "\n">>,
      <<"-", "!", "192.0.2.1", "\n">>,
      <<"?", "\n">> }

NextNeg ==
    \/ OpenDevice
    \/ LoadTable
    \/ PledgeFirst
    \/ UnveilPaths
    \/ UnveilLock
    \/ PledgeSecond
    \/ CleanupSocket
    \/ Serve
    \/ \E w \in Workers : Accept(w)
    \/ \E w \in Workers : \E line \in NegLines : ReadCommand(w, line)
    \/ \E w \in Workers : PeerClose(w)
    \/ \E w \in Workers : Acquire(w)
    \/ \E w \in Workers : Mutate(w)
    \/ \E w \in Workers : IoctlDone(w)
    \/ \E w \in Workers : IoctlError(w)
    \/ \E w \in Workers : List(w)
    \/ \E w \in Workers : Return(w)
    \/ \E w \in Workers : Raise(w)
    \/ \E w \in Workers : NextLine(w)

SpecNeg == Init /\ [][NextNeg]_vars

\* ------------------------------------------------------------- properties
Mutations == {"add", "remove", "clear"}

IsList(w) == command[w] # <<>> /\ Branch(command[w]) = "list"
IsOp(w, br) == command[w] # <<>> /\ Branch(command[w]) = br

\* memory and kernel hold the same members
KernelEq == kernel = {to_struct(a) : a \in addresses}

Texts(S) == {to_string(a) : a \in S}
Range(f) == {f[i] : i \in DOMAIN f}

\* C1: what list() returns is exactly the textual forms of the addresses that
\* were loaded at startup or added, and not removed or cleared since, each
\* exactly once.
C1_ListIsSet ==
    \A w \in Workers :
        pc[w] = "leave" /\ IsList(w) =>
            /\ Range(listed[w]) = Texts(shadow)
            /\ Len(listed[w]) = Cardinality(shadow)
            /\ \A i, j \in DOMAIN listed[w] : listed[w][i] = listed[w][j] => i = j

C1_Witness ==
    \E w \in Workers :
        pc[w] = "leave" /\ IsList(w) /\ Len(listed[w]) >= 1 /\ nset >= 2

\* C2: when a successful add, remove or clear returns and frees the lock, the
\* in-memory set and the kernel table are set-equal.
C2_Reconciled ==
    [][\A w \in Workers :
          (pc[w] = "leave" /\ pc'[w] = "replied"
             /\ Branch(command[w]) \in Mutations) => KernelEq']_vars

\* C3: when the kernel replace call of add, remove or clear fails, memory and
\* kernel are both as they were before the operation started.
C3_RolledBack ==
    \A w \in Workers :
        pc[w] = "raise" => addresses = committed /\ kernel = kcommitted

\* C4: a replace call is in progress only in the worker that holds the lock,
\* so at most one is in progress at any time.
C4_OneReplaceCall ==
    /\ \A w \in Workers : pc[w] \in {"locked", "ioctl", "leave", "raise"} => lock = w
    /\ Cardinality({w \in Workers : pc[w] = "ioctl"}) <= 1

C4_Witness ==
    \E w, v \in Workers :
        pc[w] = "ioctl" /\ pc[v] = "lock" /\ Branch(command[v]) \in Mutations

\* C5: once N workers have each returned from one add of N pairwise distinct
\* absent addresses, all N are in memory and in the kernel table, and exactly
\* N replace calls were made.
C5_NoLostUpdate ==
    (nread = NumWorkers /\ \A w \in Workers : pc[w] = "replied") =>
        /\ \A w \in Workers :
              address[w] \in addresses /\ to_struct(address[w]) \in kernel
        /\ nset = NumWorkers

C5_Witness ==
    /\ nread = NumWorkers
    /\ \A w \in Workers : pc[w] = "replied" /\ wfile[w] = OK
    /\ \A w, v \in Workers : address[w] = address[v] => w = v

\* C6: list runs while no mutation is between its change of memory and the
\* end of its kernel call, and returns the set as it stood when the lock was
\* last free.
C6_ListAtomic ==
    \A w \in Workers :
        pc[w] = "leave" /\ IsList(w) =>
            /\ Range(listed[w]) = Texts(committed)
            /\ kernel = kcommitted
            /\ \A v \in Workers \ {w} : pc[v] \notin {"locked", "ioctl", "leave", "raise"}

C6_Witness ==
    \E w, v \in Workers :
        /\ pc[w] = "leave" /\ IsList(w) /\ Len(listed[w]) >= 1
        /\ pc[v] = "lock" /\ Branch(command[v]) \in Mutations

C8_FailureReported ==
    \A w \in Workers :
        conn[w] = "aborted" => wfile[w] # <<>> /\ main_pc = "serving"

\* the member lines of a list reply
RECURSIVE TakeLine(_)
TakeLine(s) ==
    IF s = <<>> \/ Head(s) = "\n" THEN <<>> ELSE <<Head(s)>> \o TakeLine(Tail(s))

RECURSIVE SplitLines(_)
SplitLines(s) ==
    LET l == TakeLine(s)
    IN  IF Len(l) = Len(s) THEN <<l>>
        ELSE <<l>> \o SplitLines(SubSeq(s, Len(l) + 2, Len(s)))

ReplyMembers(reply) ==
    LET body == SubSeq(reply, 1, Len(reply) - 1)
    IN  IF body = <<>> THEN <<>> ELSE SplitLines(body)

C10_StartupOrder ==
    /\ promises # {} => pf_dev /\ loaded
    /\ (nread > 0 \/ \E w \in Workers : conn[w] # "none") =>
          /\ pf_dev /\ loaded
          /\ promises = Pledges \ {"unveil"}
          /\ unveil_locked

C10_Witness ==
    \E w \in Workers :
        pc[w] = "replied" /\ promises = Pledges \ {"unveil"} /\ loaded

\* C11: the stale socket file is removed before unveil is locked and before
\* the unveil promise is dropped.
C11_CleanupBeforeLock ==
    (unveil_locked \/ (promises # {} /\ "unveil" \notin promises)) =>
        main_pc \in {"cleaned", "serving", "aborted"}

\* C11, as the code has it: the stale socket file is removed after unveil is
\* locked and the unveil promise dropped, and before the server binds the path.
C11_CleanupAfterLock ==
    /\ main_pc = "cleaned" =>
          unveil_locked /\ promises = Pledges \ {"unveil"} /\ ~socket_file
    /\ main_pc = "serving" =>
          unveil_locked /\ promises = Pledges \ {"unveil"} /\ socket_file
    /\ main_pc \in {"start", "opened", "loaded", "pledged", "unveiled"} =>
          ~unveil_locked

C11_Witness == main_pc = "cleaned" /\ unveil_locked /\ "unveil" \notin promises

\* ------------------------------------------- _get_addresses, call by call
\* entries the kernel table may hold during a fetch
FetchEntries ==
    { to_struct(from_string(<<"192.0.2.1">>)),
      to_struct(from_string(<<"!", " ", "10.0.0.0", "/", "8">>)),
      to_struct(from_string(<<"2001:db8::", "/", "32">>)) }

\* a slot of (pfr_addr * buf_size)() the kernel has not written
ZeroStruct ==
    [pfra_u |-> PadTo16(<<>>), pfra_af |-> 0, pfra_net |-> 0, pfra_not |-> 0,
     pfra_fback |-> 0, pfra_type |-> 0]

NewBuffer(buf_size) == [i \in 1 .. buf_size |-> ZeroStruct]

\* PFTableAddr(a) for a buffer slot: KeyError for an unknown address family
BadRecord == [address |-> [version |-> 0, network_address |-> <<>>, prefixlen |-> 0],
              negate |-> TRUE]
decode_slot(a) ==
    IF a.pfra_af \in {AF_INET, AF_INET6} THEN from_struct(a) ELSE BadRecord

\* buffer[:n] of a ctypes array
Slice(buffer, n) == SubSeq(buffer, 1, IF n <= Len(buffer) THEN n ELSE Len(buffer))

\* variant: the loop always stops after the first call
fits_always(size, buf_size) == TRUE
\* variant: the loop test is io.pfrio_size < buf_size
fits_strict(size, buf_size) == size < buf_size

\* the loop test of _get_addresses: io.pfrio_size <= buf_size
fits(size, buf_size) == size <= buf_size

InitFetch ==
    /\ InitMain(FetchEntries)
    /\ \E n \in 0 .. MaxBuf :
          fetch = [pc |-> "call", buf_size |-> n, buffer |-> NewBuffer(n),
                   pfrio_size |-> n, calls |-> 0, errors |-> 0, changes |-> 0,
                   result |-> <<>>]
    /\ codec = NoCodec
    /\ client = NoClient

\* one pass of the while loop: ioctl(DIOCRGETADDRS), then break or grow
GetAddrsCall ==
    /\ fetch.pc = "call"
    /\ \/ \E order \in Orders(kernel) :
             LET n == Cardinality(kernel)
                 filled == IF n > fetch.buf_size THEN fetch.buffer
                           ELSE [i \in 1 .. fetch.buf_size |->
                                    IF i <= n THEN order[i] ELSE ZeroStruct]
             IN  IF fits(n, fetch.buf_size)
                 THEN fetch' = [fetch EXCEPT
                         !.pc = "done", !.buffer = filled, !.pfrio_size = n,
                         !.calls = @ + 1,
                         !.result = [i \in DOMAIN Slice(filled, n) |->
                                        decode_slot(filled[i])]]
                 ELSE fetch' = [fetch EXCEPT
                         !.buf_size = n, !.buffer = NewBuffer(n), !.pfrio_size = n,
                         !.calls = @ + 1]
       \/ fetch' = [fetch EXCEPT !.pc = "failed", !.calls = @ + 1, !.errors = @ + 1]
    /\ UNCHANGED <<main_pc, startup_vars, table_vars, worker_vars, codec, client>>

\* another process adds or deletes an entry between two calls
TableChanges ==
    /\ fetch.pc = "call"
    /\ fetch.calls >= 1
    /\ fetch.changes < MaxChanges
    /\ \E e \in FetchEntries :
          kernel' = IF e \in kernel THEN kernel \ {e} ELSE kernel \cup {e}
    /\ fetch' = [fetch EXCEPT !.changes = @ + 1]
    /\ UNCHANGED <<addresses, lock, io, nset, shadow, committed, kcommitted>>
    /\ UNCHANGED <<main_pc, startup_vars, worker_vars, codec, client>>

NextFetch == GetAddrsCall \/ TableChanges

SpecFetch == InitFetch /\ [][NextFetch]_vars

\* C12: when the kernel reports more entries than the buffer holds, the call
\* is reissued with a buffer of exactly the reported count, and the fetch
\* returns exactly the kernel's membership: nothing missing, nothing twice,
\* nothing from an unfilled slot.
C12_BufferGrowth ==
    /\ fetch.pc = "call" /\ fetch.calls >= 1 =>
          /\ fetch.buf_size = fetch.pfrio_size
          /\ Len(fetch.buffer) = fetch.pfrio_size
    /\ fetch.pc = "done" =>
          /\ Range(fetch.result) = {from_struct(a) : a \in kernel}
          /\ Len(fetch.result) = Cardinality(kernel)
          /\ BadRecord \notin Range(fetch.result)

C12_Witness ==
    /\ fetch.pc = "done"
    /\ fetch.calls = 2
    /\ fetch.changes = 0
    /\ Len(fetch.result) = 3

\* C13: with an unchanged kernel table the fetch makes at most two calls; it
\* goes on exactly while the reported count exceeds the capacity supplied, and
\* a failed call ends it without another call.
C13_FetchTerminates ==
    /\ fetch.changes = 0 => fetch.calls <= 2
    /\ fetch.calls <= 2 + fetch.changes
    /\ fetch.pc = "done" => fetch.pfrio_size <= fetch.buf_size
    /\ fetch.pc = "call" /\ fetch.changes = 0 => fetch.calls <= 1
    /\ fetch.pc = "failed" <=> fetch.errors = 1
    /\ fetch.errors <= 1

C13_Witness ==
    /\ fetch.pc = "done"
    /\ fetch.calls = 2
    /\ fetch.changes = 0
    /\ fetch.buf_size = 2

\* the address with the same network and the opposite negate flag
Twin(a) == [a EXCEPT !.negate = ~a.negate]

\* C14: an address and its negation are distinct members: add puts the given
\* one in the set and remove takes the given one out, either leaves the other
\* as it was, and list shows each member under its own text.
C14_NegateDistinct ==
    [][\A w \in Workers :
          /\ (pc[w] = "locked" /\ pc'[w] # "locked" /\ IsOp(w, "add")) =>
                /\ address[w] \in addresses'
                /\ Twin(address[w]) \in addresses' <=> Twin(address[w]) \in addresses
          /\ (pc[w] = "locked" /\ pc'[w] # "locked" /\ IsOp(w, "remove")) =>
                /\ address[w] \notin addresses'
                /\ Twin(address[w]) \in addresses' <=> Twin(address[w]) \in addresses
          /\ (pc[w] = "locked" /\ pc'[w] = "leave" /\ IsList(w)) =>
                /\ Len(listed'[w]) = Cardinality(addresses)
                /\ \A a \in addresses :
                      /\ to_string(a) \in Range(listed'[w])
                      /\ to_string(a) # to_string(Twin(a))]_vars

C14_Witness ==
    \E w \in Workers : \E a \in addresses :
        /\ Twin(a) \in addresses
        /\ pc[w] = "leave"
        /\ IsList(w)
        /\ {to_string(a), to_string(Twin(a))} \subseteq Range(listed[w])
        /\ nset >= 2

\* ------------------------------------- to_struct / _from_struct, one value
AllOnes(n) == [i \in 1 .. n |-> 255]

\* packed addresses the networks of the codec runs are cut from
CodecBases ==
    {IPLiterals[s] : s \in DOMAIN IPLiterals}
        \cup {[version |-> 4, packed |-> AllOnes(4)],
              [version |-> 6, packed |-> AllOnes(16)]}

\* every PFTableAddr value over CodecBases: any prefix length, negated or not
CodecValues ==
    UNION { { [address |-> [version |-> ip.version,
                            network_address |-> MaskPacked(ip.packed, n),
                            prefixlen |-> n],
               negate |-> g] :
                 n \in 0 .. max_prefixlen(ip.version), g \in BOOLEAN } :
            ip \in CodecBases }

InitCodec ==
    /\ InitMain(InitialEntries)
    /\ fetch = NoFetch
    /\ \E a \in CodecValues :
          codec = [pc |-> "encode", a |-> a, s |-> ZeroStruct, b |-> BadRecord]
    /\ client = NoClient

\* a.to_struct()
Encode ==
    /\ codec.pc = "encode"
    /\ codec' = [codec EXCEPT !.pc = "decode", !.s = to_struct(codec.a)]
    /\ UNCHANGED <<main_pc, startup_vars, table_vars, worker_vars, fetch, client>>

\* PFTableAddr(s)
Decode ==
    /\ codec.pc = "decode"
    /\ IF from_struct_valid(codec.s)
       THEN codec' = [codec EXCEPT !.pc = "done", !.b = from_struct(codec.s)]
       ELSE codec' = [codec EXCEPT !.pc = "error"]
    /\ UNCHANGED <<main_pc, startup_vars, table_vars, worker_vars, fetch, client>>

NextCodec == Encode \/ Decode

SpecCodec == InitCodec /\ [][NextCodec]_vars

\* C15: decoding the record that encodes a valid address raises nothing and
\* gives back the same network and the same negate flag.
C15_RoundTrip ==
    codec.pc \notin {"off", "encode", "decode"} =>
        /\ codec.pc = "done"
        /\ codec.b.address = codec.a.address
        /\ codec.b.negate = codec.a.negate

C15_Witness ==
    /\ codec.pc = "done"
    /\ codec.a.negate
    /\ codec.a.address.version = 6
    /\ codec.a.address.prefixlen = 127
    /\ codec.a.address.network_address[16] = 254

\* positions of a worker inside a table operation
InOperation == {"lock", "locked", "ioctl", "leave", "raise"}

\* C16: every line read on a connection is run as a command and answered
\* once: the step that reads a line starts a command (answered at once or
\* entering the table operation), an operation is left only with the reply
\* written, and the next line is read only after the reply.
C16_OneReplyPerLine ==
    [][/\ nread' = nread + 1 =>
             \E w \in Workers :
                 pc[w] = "idle" /\ pc'[w] \in {"replied", "lock"}
       /\ \A w \in Workers :
             /\ (pc[w] \in InOperation /\ pc'[w] \notin InOperation) =>
                    pc'[w] = "replied" /\ wfile'[w] # <<>>
             /\ (pc[w] # "idle" /\ pc'[w] = "idle") =>
                    pc[w] \in {"none", "replied"}]_vars

\* C17: a replace call is issued only by the step of an add or remove that
\* changes the in-memory set, or of a clear; its buffer is the whole set as it
\* is after the change (empty for clear); every such step issues one; and the
\* kernel table changes only by becoming the buffer of a call.
C17_ReplaceAll ==
    [][/\ nset' # nset =>
             \E w \in Workers :
                 /\ pc[w] = "locked" /\ pc'[w] = "ioctl"
                 /\ nset' = nset + 1
                 /\ \/ IsOp(w, "clear") /\ addresses' = {}
                    \/ IsOp(w, "add") /\ addresses' = addresses \cup {address[w]}
                                      /\ addresses' # addresses
                    \/ IsOp(w, "remove") /\ addresses' = addresses \ {address[w]}
                                         /\ addresses' # addresses
                 /\ io'[w].pfrio_buffer = {to_struct(a) : a \in addresses'}
                 /\ io'[w].pfrio_size = Cardinality(addresses')
       /\ (main_pc = "serving" /\ addresses' # addresses) => nset' = nset + 1
       /\ \A w \in Workers :
             /\ (pc[w] = "locked" /\ pc'[w] # "locked" /\ IsOp(w, "clear")) =>
                    nset' = nset + 1
             /\ (pc[w] = "ioctl" /\ pc'[w] # "ioctl") =>
                    pc'[w] \in {"leave", "raise"} /\ nset' = nset
       /\ kernel' # kernel =>
             \E w \in Workers : pc[w] = "ioctl" /\ kernel' = io[w].pfrio_buffer]_vars

C17_Witness ==
    \E w \in Workers :
        /\ pc[w] = "ioctl"
        /\ IsOp(w, "add")
        /\ io[w].pfrio_size = 2
        /\ io[w].pfrio_buffer = {to_struct(a) : a \in addresses}

\* ------------------------------------- the client's standard-input loop
\* self._socket.recv(1024)
RecvSize == 1024

\* byte lengths of the replies the daemon writes: "\n" for an empty list,
\* "OK\n", and list replies around one and two receives
ReplyLens == {1, 3, 1024, 1025, 2049}

Min(a, b) == IF a <= b THEN a ELSE b

\* bytes lo..hi of the reply to command k
Bytes(k, lo, hi) == [k |-> k, lo |-> lo, hi |-> hi]

InitClient ==
    /\ InitMain(InitialEntries)
    /\ fetch = NoFetch
    /\ codec = NoCodec
    /\ client = [pc |-> "readline", lens |-> <<>>, written |-> 0,
                 pending |-> <<>>, printed |-> <<>>]

\* command := sys.stdin.readline(); send_command up to the send
ClientSend ==
    /\ client.pc = "readline"
    /\ Len(client.lens) < MaxSends
    /\ \E n \in ReplyLens :
          client' = [client EXCEPT !.pc = "recv", !.lens = Append(@, n)]
    /\ UNCHANGED <<main_pc, startup_vars, table_vars, worker_vars, fetch, codec>>

\* the daemon answers the next unanswered command with one wfile.write, which
\* reaches the client's TLS layer as one record
ServerReply ==
    /\ client.pc # "off"
    /\ client.written < Len(client.lens)
    /\ LET k == client.written + 1
       IN  client' = [client EXCEPT
                         !.written = k,
                         !.pending = Append(@, Bytes(k, 1, client.lens[k]))]
    /\ UNCHANGED <<main_pc, startup_vars, table_vars, worker_vars, fetch, codec>>

\* data = self._socket.recv(1024); print(data.decode()): at most 1024 bytes of
\* the oldest unread record
ClientRecv ==
    /\ client.pc = "recv"
    /\ client.pending # <<>>
    /\ LET r == Head(client.pending)
           last == Min(r.hi, r.lo + RecvSize - 1)
       IN  client' = [client EXCEPT
                         !.pc = "readline",
                         !.printed = Append(@, Bytes(r.k, r.lo, last)),
                         !.pending = IF last = r.hi THEN Tail(@)
                                     ELSE <<Bytes(r.k, last + 1, r.hi)>> \o Tail(@)]
    /\ UNCHANGED <<main_pc, startup_vars, table_vars, worker_vars, fetch, codec>>

NextClient == ClientSend \/ ServerReply \/ ClientRecv

SpecClient == InitClient /\ [][NextClient]_vars

\* C18: the text printed for the k-th command is the whole reply to the k-th
\* command and nothing else.
C18_WholeReplyPrinted ==
    \A k \in DOMAIN client.printed :
        client.printed[k] = Bytes(k, 1, client.lens[k])

ErrorReplies == {MISSING_ADDRESS, INVALID_ADDRESS, UNKNOWN_COMMAND}

\* C19: the step in which a worker writes one of the three error replies is
\* the step that read the command; it changes neither the in-memory set nor
\* the kernel table, issues no kernel call, and the worker neither holds nor
\* takes the lock.
C19_RejectedNoEffect ==
    [][\A w \in Workers :
          (wfile'[w] \in ErrorReplies /\ wfile'[w] # wfile[w]) =>
              /\ pc[w] = "idle" /\ pc'[w] = "replied"
              /\ lock # w /\ lock' = lock
              /\ UNCHANGED <<addresses, kernel, nset, io>>]_vars

C19_Witness ==
    \E w, v \in Workers :
        /\ pc[w] = "replied"
        /\ wfile[w] = INVALID_ADDRESS
        /\ pc[v] = "ioctl"
        /\ nset >= 1

\* positions of a worker inside `with self._lock`
InWith == {"locked", "ioctl", "leave", "raise"}

\* C20: a worker holds the lock exactly while it is inside the with block of
\* an operation, so it is free again after every operation, also one ended by
\* a failing kernel call; and a worker waiting for the lock gets it.
C20_LockReleased ==
    /\ [](\A w \in Workers : lock = w <=> pc[w] \in InWith)
    /\ \A w \in Workers : (pc[w] = "lock") ~> (pc[w] = "locked")

C20_Witness ==
    \E w, v \in Workers :
        /\ pc[w] = "done"
        /\ conn[w] = "aborted"
        /\ pc[v] = "locked"
        /\ lock = v

====
